---- MODULE Spec2Model ----
(***************************************************************************)
(* mkcheck: the syscall dispatcher of syscall.cpp (the handler table       *)
(* kHandlers, the handlers and Handle), driven by a tracer loop that       *)
(* delivers the syscall-exit stops of a traced process tree.               *)
(***************************************************************************)
EXTENDS Integers, Sequences, FiniteSets

\* ------------------------------------------------------------------ bounds
MaxPid == 2
MaxReads == 2

\* ------------------------------------------- syscall numbers (x86_64 ABI)
SYS_read == 0
SYS_write == 1
SYS_open == 2
SYS_close == 3
SYS_stat == 4
SYS_fstat == 5
SYS_lstat == 6
SYS_lseek == 8
SYS_mmap == 9
SYS_mprotect == 10
SYS_munmap == 11
SYS_brk == 12
SYS_rt_sigaction == 13
SYS_rt_sigprocmask == 14
SYS_rt_sigreturn == 15
SYS_ioctl == 16
SYS_pread64 == 17
SYS_readv == 19
SYS_access == 21
SYS_pipe == 22
SYS_dup == 32
SYS_dup2 == 33
SYS_getpid == 39
SYS_clone == 56
SYS_vfork == 58
SYS_execve == 59
SYS_wait4 == 61
SYS_fcntl == 72
SYS_getdents == 78
SYS_getcwd == 79
SYS_chdir == 80
SYS_rename == 82
SYS_unlink == 87
SYS_readlink == 89
SYS_chmod == 90
SYS_umask == 95
SYS_getrlimit == 97
SYS_getrusage == 98
SYS_sysinfo == 99
SYS_sigaltstack == 131
SYS_arch_prctl == 158
SYS_setrlimit == 160
SYS_futex == 202
SYS_set_tid_address == 218
SYS_exit_group == 231
SYS_openat == 257
SYS_set_robust_list == 273
SYS_pipe2 == 293

\* ------------------------------------------------------------- the table
NULL == "NULL"
\* what a read past the end of the table may yield besides NULL or a handler
Garbage == "garbage"

\* the designated initializers of kHandlers, one pair per line of the table
Designated ==
  { <<SYS_read, "sys_read">>, <<SYS_write, "sys_write">>,
    <<SYS_open, "sys_open">>, <<SYS_close, "sys_close">>,
    <<SYS_stat, "sys_stat">>, <<SYS_fstat, "sys_fstat">>,
    <<SYS_lstat, "sys_lstat">>, <<SYS_lseek, "sys_ignore">>,
    <<SYS_mmap, "sys_ignore">>, <<SYS_mprotect, "sys_ignore">>,
    <<SYS_munmap, "sys_ignore">>, <<SYS_brk, "sys_ignore">>,
    <<SYS_rt_sigaction, "sys_ignore">>, <<SYS_rt_sigprocmask, "sys_ignore">>,
    <<SYS_rt_sigreturn, "sys_ignore">>, <<SYS_ioctl, "sys_ioctl">>,
    <<SYS_pread64, "sys_pread64">>, <<SYS_readv, "sys_readv">>,
    <<SYS_access, "sys_access">>, <<SYS_pipe, "sys_pipe">>,
    <<SYS_dup, "sys_dup">>, <<SYS_dup2, "sys_dup2">>,
    <<SYS_getpid, "sys_ignore">>, <<SYS_clone, "sys_clone">>,
    <<SYS_vfork, "sys_vfork">>, <<SYS_execve, "sys_ignore">>,
    <<SYS_wait4, "sys_ignore">>, <<SYS_fcntl, "sys_fcntl">>,
    <<SYS_getdents, "sys_getdents">>, <<SYS_getcwd, "sys_ignore">>,
    <<SYS_chdir, "sys_chdir">>, <<SYS_rename, "sys_rename">>,
    <<SYS_unlink, "sys_unlink">>, <<SYS_readlink, "sys_readlink">>,
    <<SYS_chmod, "sys_chmod">>, <<SYS_umask, "sys_ignore">>,
    <<SYS_sysinfo, "sys_ignore">>, <<SYS_getrlimit, "sys_ignore">>,
    <<SYS_getrusage, "sys_ignore">>, <<SYS_sigaltstack, "sys_ignore">>,
    <<SYS_arch_prctl, "sys_ignore">>, <<SYS_setrlimit, "sys_ignore">>,
    <<SYS_futex, "sys_ignore">>, <<SYS_set_tid_address, "sys_ignore">>,
    <<SYS_exit_group, "sys_ignore">>, <<SYS_set_robust_list, "sys_ignore">>,
    <<SYS_pipe2, "sys_pipe2">> }

DesignatedIndex == { e[1] : e \in Designated }

DesignatedHandler(sno) == (CHOOSE e \in Designated : e[1] = sno)[2]

HandlerNames == { e[2] : e \in Designated }

\* sizeof(kHandlers) / sizeof(kHandlers[0]): an array with designated
\* initializers has one slot more than its highest designated index
kHandlersSize ==
  (CHOOSE m \in DesignatedIndex : \A i \in DesignatedIndex : i <= m) + 1

\* faulty variant: a table whose unlisted slots default to sys_ignore
kHandlersDefaultIgnore(sno) ==
  IF sno \in DesignatedIndex THEN DesignatedHandler(sno) ELSE "sys_ignore"

\* faulty variant: the wait4 row carries the handler of the row two above it
kHandlersWaitSpawns(sno) ==
  IF sno = SYS_wait4 THEN "sys_vfork"
  ELSE IF sno \in DesignatedIndex THEN DesignatedHandler(sno) ELSE NULL

\* kHandlers[sno] for 0 <= sno < kHandlersSize: the designated handler, and
\* a null pointer in every slot the initializer list leaves out
kHandlers(sno) ==
  IF sno \in DesignatedIndex THEN DesignatedHandler(sno) ELSE NULL


\* ----------------------------------------------------------- the handlers
\* Args, as far as the handlers read it
MkArgs(pid, ret) == [PID |-> pid, Return |-> ret]

\* the calls a handler makes on the trace, in order: <<parent, pid>> per
\* SpawnTrace call
NoCalls == << >>

\* faulty variant: the spawn is registered whatever the syscall returned
sys_cloneUnguarded(args) == << <<args.PID, args.Return>> >>

sys_clone(args) ==
  IF args.Return > 0 THEN << <<args.PID, args.Return>> >> ELSE NoCalls

\* faulty variant: the two arguments of SpawnTrace are passed in the wrong order
sys_vforkSwapped(args) ==
  IF args.Return > 0 THEN << <<args.Return, args.PID>> >> ELSE NoCalls

sys_vfork(args) ==
  IF args.Return > 0 THEN << <<args.PID, args.Return>> >> ELSE NoCalls

\* every other handler has an empty body: it makes no call on the trace
EmptyHandlers == HandlerNames \ {"sys_clone", "sys_vfork"}

Invoke(h, args) ==
  CASE h = "sys_clone" -> sys_clone(args)
    [] h = "sys_vfork" -> sys_vfork(args)
    [] h \in EmptyHandlers -> NoCalls

\* ----------------------------------------------------------------- Handle
NoIndex == -1

\* what the slot one past the end of the table may hold
PastTheEnd == HandlerNames \cup {NULL, Garbage}

\* Handle(trace, sno, args). slot is the content of the memory behind the
\* table, read only when sno = kHandlersSize. The result names the table
\* index that was read (NoIndex when none was), the handler that was
\* called (NULL when none was), how the call ended and the calls made on
\* the trace.
Handle(sno, args, slot) ==
  IF sno < 0
  THEN [index |-> NoIndex, handler |-> NULL, outcome |-> "returned",
        spawns |-> NoCalls]
  ELSE IF sno > kHandlersSize
  THEN [index |-> NoIndex, handler |-> NULL, outcome |-> "thrown",
        spawns |-> NoCalls]
  ELSE LET h == IF sno < kHandlersSize THEN kHandlers(sno) ELSE slot
       IN  IF h = NULL
           THEN [index |-> sno, handler |-> NULL, outcome |-> "thrown",
                 spawns |-> NoCalls]
           ELSE IF h = Garbage
           THEN [index |-> sno, handler |-> NULL, outcome |-> "crashed",
                 spawns |-> NoCalls]
           ELSE [index |-> sno, handler |-> h, outcome |-> "returned",
                 spawns |-> Invoke(h, args)]

\* ------------------------------------------------------------------ state
PIDs == 1 .. MaxPid
Root == 1
NoParent == 0
\* the descriptor and the path of the traced open/read/close traffic
Fd == 3
ThePath == "/tmp/a.txt"

VARIABLES
  procs,    \* the trace's process table: pid -> [status, parent]
  edges,    \* the dependency graph: the sequence of edges recorded so far
  alive,    \* the processes the kernel is running
  stop,     \* pid -> NotStopped, 0 (in a syscall-exit stop) or the pid of
            \* the child its successful clone/vfork has just created
  fdOpen,   \* pid -> whether descriptor Fd is open on ThePath
  reads,    \* pid -> successful reads of Fd handed to Handle so far
  last,     \* the last call of Handle: its inputs and its result
  run       \* "tracing", "aborted" (Handle threw) or "crashed"

vars == <<procs, edges, alive, stop, fdOpen, reads, last, run>>

NotStopped == -1

NoProc == [status |-> "none", parent |-> NoParent]

\* Trace::SpawnTrace(parent, pid): registers pid as a child of parent
SpawnTrace(table, parent, pid) ==
  [table EXCEPT ![pid] = [status |-> "active", parent |-> parent]]

RECURSIVE ApplyCalls(_, _)
ApplyCalls(table, calls) ==
  IF calls = << >> THEN table
  ELSE ApplyCalls(SpawnTrace(table, Head(calls)[1], Head(calls)[2]),
                  Tail(calls))

NoCall ==
  [sno |-> NoIndex, pid |-> Root, ret |-> 0, pre |-> "none",
   index |-> NoIndex, handler |-> NULL, outcome |-> "none",
   spawns |-> NoCalls]

Init ==
  /\ procs = [p \in PIDs |->
                IF p = Root THEN [status |-> "active", parent |-> NoParent]
                ELSE NoProc]
  /\ edges = << >>
  /\ alive = {Root}
  /\ stop = [p \in PIDs |-> NotStopped]
  /\ fdOpen = [p \in PIDs |-> FALSE]
  /\ reads = [p \in PIDs |-> 0]
  /\ last = NoCall
  /\ run = "tracing"

\* ------------------------------------------------------- the traced tree
\* the kernel runs a successful clone or vfork of p: the child c exists
\* from now on, with a copy of p's descriptors, and p is in the
\* syscall-exit stop of the spawn
SpawnKernel(p, c) ==
  /\ run = "tracing"
  /\ p \in alive
  /\ stop[p] = NotStopped
  /\ c \in PIDs \ alive
  /\ \A q \in PIDs : stop[q] # c
  /\ alive' = alive \cup {c}
  /\ stop' = [stop EXCEPT ![p] = c]
  /\ fdOpen' = [fdOpen EXCEPT ![c] = fdOpen[p]]
  /\ UNCHANGED <<procs, edges, reads, last, run>>

\* p reaches the syscall-exit stop of any other syscall
EnterStop(p) ==
  /\ run = "tracing"
  /\ p \in alive
  /\ stop[p] = NotStopped
  /\ stop' = [stop EXCEPT ![p] = 0]
  /\ UNCHANGED <<procs, edges, alive, fdOpen, reads, last, run>>

\* the tracer observes the exit of a tracee and retires its state
ObserveExit(p) ==
  /\ run = "tracing"
  /\ p \in alive
  /\ stop[p] = NotStopped
  /\ procs[p].status = "active"
  /\ alive' = alive \ {p}
  /\ procs' = [procs EXCEPT ![p].status = "retired"]
  /\ fdOpen' = [fdOpen EXCEPT ![p] = FALSE]
  /\ UNCHANGED <<edges, stop, reads, last, run>>

\* the syscall numbers and return values the tracer may read at a stop:
\* every listed number, three unlisted ones inside the table, a negative
\* one, the table's size and the number after it
Holes == {SYS_lstat + 1, SYS_clone + 1, SYS_openat}
SnoInputs ==
  DesignatedIndex \cup Holes \cup {-1, kHandlersSize, kHandlersSize + 1}
\* the syscalls of the processes of a tree that spawns
TreeSnoInputs == {SYS_clone, SYS_vfork, SYS_execve, SYS_exit_group}
RetInputs == {-1, 0, Fd}

\* what the kernel can have returned for sno in process p
KernelAllows(p, sno, ret) ==
  /\ sno \in {SYS_clone, SYS_vfork} =>
       IF stop[p] > 0 THEN ret = stop[p] ELSE ret <= 0
  /\ stop[p] > 0 => sno \in {SYS_clone, SYS_vfork}
  /\ sno = SYS_open /\ ret = Fd => ~fdOpen[p]
  /\ sno = SYS_read /\ ret >= 0 => fdOpen[p] /\ reads[p] < MaxReads
  /\ sno = SYS_close => ret <= 0
  /\ sno = SYS_close /\ ret = 0 => fdOpen[p]

\* the tracer picks the stop of p, reads the registers and calls Handle
Dispatch(p, sno, ret, slot) ==
  /\ run = "tracing"
  /\ stop[p] # NotStopped
  /\ KernelAllows(p, sno, ret)
  /\ LET res == Handle(sno, MkArgs(p, ret), slot)
     IN  /\ last' = [sno |-> sno, pid |-> p, ret |-> ret,
                     pre |-> procs[p].status, index |-> res.index,
                     handler |-> res.handler, outcome |-> res.outcome,
                     spawns |-> res.spawns]
         /\ procs' = ApplyCalls(procs, res.spawns)
         /\ run' = CASE res.outcome = "returned" -> "tracing"
                     [] res.outcome = "thrown" -> "aborted"
                     [] res.outcome = "crashed" -> "crashed"
  /\ stop' = [stop EXCEPT ![p] = NotStopped]
  /\ fdOpen' = IF sno = SYS_open /\ ret = Fd
               THEN [fdOpen EXCEPT ![p] = TRUE]
               ELSE IF sno = SYS_close /\ ret = 0
               THEN [fdOpen EXCEPT ![p] = FALSE]
               ELSE fdOpen
  /\ reads' = IF sno = SYS_read /\ ret >= 0
              THEN [reads EXCEPT ![p] = @ + 1]
              ELSE reads
  /\ UNCHANGED <<edges, alive>>

Slots(sno) == IF sno = kHandlersSize THEN PastTheEnd ELSE {NULL}

\* a process tree: spawns, exits and the stops of all its processes,
\* dispatched in any order the kernel may report them
Next ==
  \/ \E p \in PIDs, c \in PIDs : SpawnKernel(p, c)
  \/ \E p \in PIDs : EnterStop(p)
  \/ \E p \in PIDs : ObserveExit(p)
  \/ \E p \in PIDs, sno \in TreeSnoInputs, ret \in RetInputs \cup PIDs :
       Dispatch(p, sno, ret, NULL)

Spec == Init /\ [][Next]_vars

\* the root process alone, issuing any syscall number
NextTable ==
  \/ EnterStop(Root)
  \/ \E sno \in SnoInputs, ret \in RetInputs :
       \E slot \in Slots(sno) : Dispatch(Root, sno, ret, slot)

SpecTable == Init /\ [][NextTable]_vars

\* ----------------------------------------------------------------- claims
\* the step is a call of Handle: the stop of last'.pid is consumed
Dispatched == stop[last'.pid] # NotStopped /\ stop'[last'.pid] = NotStopped

TraceUnchanged == procs' = procs /\ edges' = edges

SpawnSnos == {SYS_clone, SYS_vfork}

ReadEdges(p, f) ==
  { i \in DOMAIN edges : edges[i] = [pid |-> p, file |-> f, kind |-> "Read"] }

IsHole(sno) == sno \in 0 .. (kHandlersSize - 1) /\ sno \notin DesignatedIndex

C1_State ==
  IsHole(last.sno) =>
    /\ last.outcome = "thrown"
    /\ last.handler = NULL
    /\ last.spawns = NoCalls
    /\ run = "aborted"

C1_Step == Dispatched /\ IsHole(last'.sno) => TraceUnchanged

\* C1: a syscall number inside the table that has no entry makes Handle
\* raise the fatal "Unhandled syscall" error; no handler is invoked, the
\* trace is left unchanged, and the number is never treated as Ignore.
C1_HoleIsFatal == []C1_State /\ [][C1_Step]_vars

C1_Witness ==
  /\ last.sno = SYS_lstat + 1
  /\ last.outcome = "thrown"
  /\ run = "aborted"

\* C2: Handle never reads the table outside its bounds: every sno at or
\* above the number of slots, the number of slots itself included, raises
\* the fatal error before any slot is indexed.
C2_IndexInBounds ==
  /\ last.index # NoIndex => last.index \in 0 .. (kHandlersSize - 1)
  /\ last.sno >= kHandlersSize =>
       last.outcome = "thrown" /\ last.index = NoIndex

\* C3: no syscall number, negative ones included, is silently ignored: a
\* call of Handle that returns normally has run the handler the table
\* assigns to the number.
C3_NeverSilentlyIgnored ==
  last.outcome = "returned" =>
    /\ last.index # NoIndex
    /\ last.handler # NULL
    /\ last.handler = kHandlers(last.sno)

C4_State ==
  /\ last.sno \in DesignatedIndex /\ last.ret < 0 => last.spawns = NoCalls
  /\ last.sno \in SpawnSnos /\ last.ret <= 0 => last.spawns = NoCalls

C4_Step ==
  Dispatched /\ last'.sno \in DesignatedIndex /\ last'.ret < 0
    => TraceUnchanged

\* C4: a failed syscall changes nothing: for a listed syscall number and a
\* negative return value Handle registers no process, changes no process
\* state and emits no edge, and a clone or vfork event with Return <= 0
\* never calls SpawnTrace.
C4_FailedSyscallChangesNothing == []C4_State /\ [][C4_Step]_vars

C4_Witness ==
  /\ last.sno = SYS_clone
  /\ last.ret < 0
  /\ last.handler = "sys_clone"
  /\ last.outcome = "returned"

C5_State ==
  last.sno \in SpawnSnos /\ last.ret > 0 /\ last.outcome = "returned" =>
    last.spawns = << <<last.pid, last.ret>> >>

C5_Step ==
  Dispatched /\ last'.sno \in SpawnSnos /\ last'.ret > 0 =>
    /\ procs'[last'.ret] = [status |-> "active", parent |-> last'.pid]
    /\ \A q \in PIDs \ {last'.ret} : procs'[q] = procs[q]
    /\ edges' = edges

\* C5: a clone or vfork event of process P with Return = c > 0 calls
\* SpawnTrace exactly once, with P as the parent and c as the new tracee:
\* afterwards c is registered with parent P and no other process was
\* registered or changed by the event.
C5_SpawnRegistersOneChild == []C5_State /\ [][C5_Step]_vars

C5_Witness ==
  /\ last.sno = SYS_vfork
  /\ last.ret > 0
  /\ last.spawns = << <<last.pid, last.ret>> >>
  /\ procs[last.ret] = [status |-> "active", parent |-> last.pid]

\* C6: in every interleaving of the stops of a parent and its child, the
\* child is registered before the first event of the child is dispatched:
\* no handler runs for an event of a process other than the root that has
\* not been registered by SpawnTrace.
C6_ChildRegisteredBeforeItsEvents ==
  last.handler # NULL /\ last.pid # Root => last.pre # "none"

\* C7: events are processed only for active processes: a handler runs only
\* if the event's process is registered and not retired, and an event of
\* any other process is a fatal error that changes nothing.
C7_OnlyActiveProcessesHandled ==
  /\ last.handler # NULL => last.pre = "active"
  /\ last.outcome # "none" /\ last.pre # "active" =>
       last.outcome = "thrown" /\ last.spawns = NoCalls

\* C8: each successful read produces exactly one Read edge: once process X
\* has opened the path, read it k times with success and closed it, the
\* graph holds exactly k Read edges (X, path) and no other edge.
C8_OneReadEdgePerRead ==
  last.sno = SYS_close /\ last.ret = 0 /\ last.outcome = "returned" =>
    /\ Cardinality(ReadEdges(last.pid, ThePath)) = reads[last.pid]
    /\ Len(edges) = reads[last.pid]

\* C9: a successful openat is decoded as an Open event: Handle dispatches
\* it to the open handler instead of rejecting the number as unclassified.
C9_OpenatIsOpen ==
  last.sno = SYS_openat /\ last.ret >= 0 =>
    last.outcome = "returned" /\ last.handler = "sys_open"

\* the syscalls the classification lists as Ignore
IgnoredSnos ==
  { SYS_lseek, SYS_mmap, SYS_mprotect, SYS_munmap, SYS_brk,
    SYS_rt_sigaction, SYS_rt_sigprocmask, SYS_rt_sigreturn, SYS_getpid,
    SYS_execve, SYS_wait4, SYS_getcwd, SYS_umask, SYS_sysinfo,
    SYS_getrlimit, SYS_getrusage, SYS_sigaltstack, SYS_arch_prctl,
    SYS_setrlimit, SYS_futex, SYS_set_tid_address, SYS_exit_group,
    SYS_set_robust_list }

C10_State ==
  last.sno \in IgnoredSnos =>
    /\ last.outcome = "returned"
    /\ last.handler = "sys_ignore"
    /\ last.spawns = NoCalls
    /\ run = "tracing"

C10_Step == Dispatched /\ last'.sno \in IgnoredSnos => TraceUnchanged

\* C10: every syscall classified Ignore is handled without error and, for
\* any return value, leaves the registered processes, their states and the
\* edges of the graph as they were.
C10_IgnoreChangesNothing == []C10_State /\ [][C10_Step]_vars

C10_Witness ==
  /\ last.sno = SYS_exit_group
  /\ last.ret = 0
  /\ last.outcome = "returned"
  /\ last.handler = "sys_ignore"

====
